---- MODULE Spec2Model ----
(***************************************************************************)
(* Model of entity_markup_converter.py: the substring search, the entity   *)
(* extraction, the overlap grouping, the markup rendering, the set-based   *)
(* comparison and the per-line report loop of EntityMarkupConverter.       *)
(*                                                                         *)
(* A Python str is a sequence of symbols.  A symbol is a one-character     *)
(* string for each character that html.escape rewrites, and a chunk of     *)
(* ordinary characters otherwise; the markup literals of the code are      *)
(* chunks of their own.  Offsets are 0-based and half-open as in Python:   *)
(* text[i:j] is SubSeq(text, i + 1, j).                                    *)
(***************************************************************************)
EXTENDS Integers, Sequences, FiniteSets, TLC

VARIABLES
    \* find_all_occurrences, one run of its loop (lines 71-81)
    text, span_text, start, occurrences, fpc,
    \* one record through the body of the report loop (lines 854-886)
    item, all_entities, overlap_groups, result, comparison, rpc,
    \* one call of create_entity_html (lines 204-274)
    entity, entity_html, epc,
    \* the report loop (lines 845-1010)
    lines, html_content, total_comparisons, text_count, mpc

findVars == <<text, span_text, start, occurrences, fpc>>
recVars == <<item, all_entities, overlap_groups, result, comparison, rpc>>
renderVars == <<entity, entity_html, epc>>
reportVars == <<lines, html_content, total_comparisons, text_count, mpc>>
vars == <<findVars, recVars, renderVars, reportVars>>

\* ------------------------------------------------------------------ bounds
MaxTextLen == 3
MaxSpanLen == 2
MaxLabels == 2
MaxTypes == 2
MaxLines == 3

\* The characters of the modelled passages: an ordinary one and two that
\* html.escape rewrites.
Alphabet == {"a", "<", "&"}

Strings(n) == UNION {[1..k -> Alphabet] : k \in 0..n}

\* The characters of the passages and span texts of the modelled records.
RecordAlphabet == {"a", "<"}

RecordStrings(n) == UNION {[1..k -> RecordAlphabet] : k \in 0..n}

SeqsUpTo(S, n) == UNION {[1..k -> S] : k \in 0..n}

\* An annotation {span, types} and a record of the input (lines 85-115): its
\* text and the annotations under 'labels', 'mistral_small_3.2_output' and
\* 'gpt_4o_mini_output'.
Label(sp, ty) == [span |-> sp, types |-> ty]

Item(t, gt, mi, gp) == [text |-> t, labels |-> gt, mistral |-> mi, gpt4 |-> gp]

Min(S) == CHOOSE x \in S : \A y \in S : x <= y

\* ------------------------------------------------------------ str methods
\* text[i:j] for 0 <= i <= j <= len(text)
Slice(s, i, j) == SubSeq(s, i + 1, j)

\* str.find(sub, from): the lowest index >= from where sub occurs, else -1;
\* the empty string occurs at every index up to len(s).
PyFind(s, sub, from) ==
    LET cands == {i \in from..(Len(s) - Len(sub)) : Slice(s, i, i + Len(sub)) = sub}
    IN  IF cands = {} THEN -1 ELSE Min(cands)

\* ------------------------------------------------- find_all_occurrences
NextStartSkip(pos, sub) == pos + (IF Len(sub) = 0 THEN 1 ELSE Len(sub))

\* The search resumed after the occurrence found.
NextStartAfter(pos, sub) == pos + Len(sub)

\* line 80: start = pos + 1
NextStart(pos, sub) == pos + 1

RECURSIVE FindFrom(_, _, _)
FindFrom(s, sub, from) ==
    LET pos == PyFind(s, sub, from)
    IN  IF pos = -1 THEN <<>>
        ELSE <<<<pos, pos + Len(sub)>>>> \o FindFrom(s, sub, NextStart(pos, sub))

find_all_occurrences(s, sub) == FindFrom(s, sub, 0)

\* ------------------------------------------------------ extract_entities
\* EntitySpan (lines 22-30)
EntitySpan(s, e, t, ty, src, occ) ==
    [start |-> s, end |-> e, text |-> t, types |-> ty, source |-> src,
     occurrence_id |-> occ]

\* span_counters, a defaultdict(int): a missing key reads as 0.
Count(counters, k) == IF k \in DOMAIN counters THEN counters[k] ELSE 0

Incr(counters, k) ==
    [x \in DOMAIN counters \cup {k} |->
        IF x = k THEN Count(counters, k) + 1 ELSE counters[x]]

NoCounters == [x \in {} |-> 0]

\* lines 97-106 and 118-127: one EntitySpan per occurrence, the counter of the
\* span text raised before each.  The value is <<entities, span_counters>>.
RECURSIVE SpansOfLabel(_, _, _, _, _, _)
SpansOfLabel(occ, i, label, src, entities, counters) ==
    IF i > Len(occ) THEN <<entities, counters>>
    ELSE LET c == Incr(counters, label.span)
         IN  SpansOfLabel(occ, i + 1, label, src,
                 Append(entities,
                        EntitySpan(occ[i][1], occ[i][2], label.span, label.types,
                                   src, c[label.span])),
                 c)

\* lines 92-95 and 113-116: the annotations of one source, in their order.
RECURSIVE SpansOfSource(_, _, _, _, _, _)
SpansOfSource(passage, labels, i, src, entities, counters) ==
    IF i > Len(labels) THEN <<entities, counters>>
    ELSE LET r == SpansOfLabel(find_all_occurrences(passage, labels[i].span), 1,
                               labels[i], src, entities, counters)
         IN  SpansOfSource(passage, labels, i + 1, src, r[1], r[2])

\* line 129: the sort key (x.start, -x.end), compared as Python compares tuples.
KeyLE(a, b) == a.start < b.start \/ (a.start = b.start /\ -a.end <= -b.end)

\* sorted() is stable: an element goes after every element whose key is not
\* greater than its own.
InsertSorted(sorted, e) ==
    LET n == Cardinality({i \in 1..Len(sorted) : KeyLE(sorted[i], e)})
    IN  SubSeq(sorted, 1, n) \o <<e>> \o SubSeq(sorted, n + 1, Len(sorted))

RECURSIVE SortedByKey(_)
SortedByKey(s) ==
    IF s = <<>> THEN <<>>
    ELSE InsertSorted(SortedByKey(SubSeq(s, 1, Len(s) - 1)), s[Len(s)])

\* The counters of the source before, kept.
ClearedKeep(counters) == counters

\* line 111: span_counters.clear() before each model
Cleared(counters) == NoCounters

\* lines 83-129
extract_entities(it) ==
    LET gt == SpansOfSource(it.text, it.labels, 1, "ground_truth", <<>>, NoCounters)
        mi == SpansOfSource(it.text, it.mistral, 1, "mistral", gt[1], Cleared(gt[2]))
        gp == SpansOfSource(it.text, it.gpt4, 1, "gpt4", mi[1], Cleared(mi[2]))
    IN  SortedByKey(gp[1])

\* lines 859-861: [e for e in all_entities if e.source == src]
OfSource(entities, src) == SelectSeq(entities, LAMBDA e : e.source = src)

Sources == <<"ground_truth", "mistral", "gpt4">>

\* ------------------------------------------------------ resolve_overlaps
\* lines 143-144
Overlaps(a, b) == a.start < b.end /\ a.end > b.start

\* lines 139-154: the entities from the i-th on, current_group being open.
RECURSIVE GroupFrom(_, _, _)
GroupFrom(entities, i, current_group) ==
    IF i > Len(entities) THEN <<current_group>>
    ELSE IF \E g \in 1..Len(current_group) : Overlaps(entities[i], current_group[g])
         THEN GroupFrom(entities, i + 1, Append(current_group, entities[i]))
         ELSE <<current_group>> \o GroupFrom(entities, i + 1, <<entities[i]>>)

\* lines 131-155
resolve_overlaps(entities) ==
    IF entities = <<>> THEN <<>> ELSE GroupFrom(entities, 2, <<entities[1]>>)

\* ------------------------------------------------------------- rendering
\* A piece of markup: the symbols one expression of the code writes, and
\* which expression (kind) wrote them.
Piece(k, s) == [kind |-> k, s |-> s]

\* sep.join(parts), each part a sequence of symbols
RECURSIVE Join(_, _)
Join(parts, sep) ==
    IF parts = <<>> THEN <<>>
    ELSE IF Len(parts) = 1 THEN parts[1]
    ELSE parts[1] \o <<sep>> \o Join(Tail(parts), sep)

\* A type label is one symbol; the labels of a list as parts to join.
Labels(types) == [i \in 1..Len(types) |-> <<types[i]>>]

\* The needle of line 320, one symbol; html.escape rewrites its quote.
TitleAttr == "title=\""

EscapeNone(c) == c

\* html.escape(s, quote=True), symbol by symbol
EscapeSym(c) ==
    CASE c = "&" -> "&amp;"
      [] c = "<" -> "&lt;"
      [] c = ">" -> "&gt;"
      [] c = "\"" -> "&quot;"
      [] c = "'" -> "&#x27;"
      [] c = TitleAttr -> "title=&quot;"
      [] OTHER -> c

Escape(s) == [i \in 1..Len(s) |-> EscapeSym(s[i])]

\* lines 49-63
entity_colors ==
    [k \in {"E21 Person", "E53 Place", "E52 Time-Span", "E54 Dimension",
            "E19 Physical Thing", "E74 Group", "E86 Leaving", "E9 Move",
            "F2 Expression", "E31 Document", "E55 Type", "E7 Activity",
            "default"} |->
        CASE k = "E21 Person" -> "#FF6B6B"
          [] k = "E53 Place" -> "#4ECDC4"
          [] k = "E52 Time-Span" -> "#45B7D1"
          [] k = "E54 Dimension" -> "#96CEB4"
          [] k = "E19 Physical Thing" -> "#FFEAA7"
          [] k = "E74 Group" -> "#DDA0DD"
          [] k = "E86 Leaving" -> "#F39C12"
          [] k = "E9 Move" -> "#E17055"
          [] k = "F2 Expression" -> "#A29BFE"
          [] k = "E31 Document" -> "#FD79A8"
          [] k = "E55 Type" -> "#FDCB6E"
          [] k = "E7 Activity" -> "#6C5CE7"
          [] OTHER -> "#BDC3C7"]

\* lines 65-69
source_labels ==
    [k \in {"ground_truth", "mistral", "gpt4"} |->
        CASE k = "ground_truth" -> "Ground Truth"
          [] k = "mistral" -> "Mistral Small 3.2"
          [] OTHER -> "GPT-4o Mini"]

\* lines 171-174 and 222-225: the colours of the types the table knows
MatchedColorsPadded(types) ==
    [i \in 1..Len(types) |->
        IF types[i] \in DOMAIN entity_colors THEN entity_colors[types[i]]
        ELSE entity_colors["default"]]

MatchedColors(types) ==
    LET known == SelectSeq(types, LAMBDA t : t \in DOMAIN entity_colors)
    IN  [i \in 1..Len(known) |-> entity_colors[known[i]]]

\* lines 157-162
get_primary_color(types) ==
    LET colors == MatchedColors(types)
    IN  IF colors = <<>> THEN entity_colors["default"] ELSE colors[1]

\* lines 190-196: the stops of the stripes
GradientStops(colors) ==
    LET stripe_width == 100 \div Len(colors)
    IN  [i \in 1..Len(colors) |->
            <<colors[i], " ", ToString((i - 1) * stripe_width), "%, ",
              colors[i], " ", ToString(i * stripe_width), "%">>]

\* lines 164-198: <<primary_color, background>>
get_combined_colors(types) ==
    LET colors == MatchedColors(types)
    IN  IF Len(types) <= 1
        THEN <<get_primary_color(types), <<get_primary_color(types)>>>>
        ELSE IF colors = <<>>
        THEN <<entity_colors["default"], <<entity_colors["default"]>>>>
        ELSE IF Len(colors) = 1 THEN <<colors[1], <<colors[1]>>>>
        ELSE IF Len(colors) = 2
        THEN <<colors[1],
               <<"linear-gradient(45deg, ", colors[1], " 50%, ", colors[2], " 50%)">>>>
        ELSE <<colors[1],
               <<"linear-gradient(45deg, ">> \o Join(GradientStops(colors), ", ")
                   \o <<")">>>>

\* lines 200-202
format_types(types) == Join(Labels(types), ", ")

SupAlways(occurrence_id) == <<"<sup>", ToString(occurrence_id), "</sup>">>

\* line 210
occurrence_suffix(occurrence_id) ==
    IF occurrence_id > 1 THEN <<"<sup>", ToString(occurrence_id), "</sup>">>
    ELSE <<>>

\* lines 212-231: <<multi_label_class, css_variables, the count of
\* type_count_attr>>
MultiLabelStyle(types) ==
    LET colors == MatchedColors(types)
    IN  IF Len(types) <= 1 THEN <<<<>>, <<>>, <<>>>>
        ELSE <<IF Len(colors) >= 3 THEN <<"triple-label">> ELSE <<"multi-label">>,
               IF Len(colors) >= 3
               THEN <<"--primary-color: ", colors[1], "; --secondary-color: ",
                      colors[2], ";", " --tertiary-color: ", colors[3], ";">>
               ELSE IF Len(colors) = 2
               THEN <<"--primary-color: ", colors[1], "; --secondary-color: ",
                      colors[2], ";">>
               ELSE <<>>,
               <<ToString(Len(types))>>>>

\* lines 247-249: one list item of the tooltip per type
TypeItem(entity_type) ==
    Piece("type_item",
          <<"<li class=\"type-item\" style=\"border-left: 3px solid ",
            IF entity_type \in DOMAIN entity_colors THEN entity_colors[entity_type]
            ELSE entity_colors["default"],
            ";\">", entity_type, "</li>">>)

\* line 258, up to the quote that closes the attribute
TypesAttr(types) ==
    Piece("types_attr", <<"data-types=\"">> \o Join(Labels(types), "|"))

\* line 271: the text of the entity
EntityText(t) == Piece("text", Escape(t))

\* lines 204-274, is_primary at its default: the markup of one entity
create_entity_html(e) ==
    LET cc == get_combined_colors(e.types)
        ml == MultiLabelStyle(e.types)
        background_style ==
            IF Len(e.types) > 1 THEN <<"background: ">> \o cc[2] \o <<";">>
            ELSE <<"background-color: ">> \o cc[2] \o <<";">>
    IN  <<Piece("open",
                <<"<span class=\"entity ", e.source, " ">> \o ml[1]
                    \o <<"\" style=\"">> \o background_style \o <<" ">> \o ml[2]
                    \o <<" opacity: ", "0.8", "; border: 1px solid ", cc[1], ";\" ">>),
          TypesAttr(e.types),
          \* lines 219 and 270: the closing quote of data-types, the count, '>'
          Piece("type_count_attr",
                IF ml[3] = <<>> THEN <<"\" >">>
                ELSE <<"\" data-type-count=\"">> \o ml[3] \o <<"\">">>),
          EntityText(e.text),
          Piece("sup", occurrence_suffix(e.occurrence_id)),
          Piece("tooltip",
                <<"<div class=\"entity-tooltip\"><div class=\"tooltip-section\"><span class=\"tooltip-label\">Source:</span> ",
                  source_labels[e.source],
                  "</div><div class=\"tooltip-section\"><span class=\"tooltip-label\">Position:</span> ",
                  ToString(e.start), "-", ToString(e.end),
                  "</div><div class=\"tooltip-section\"><span class=\"tooltip-label\">Types:</span><ul class=\"type-list\">">>)>>
        \o [i \in 1..Len(e.types) |-> TypeItem(e.types[i])]
        \o <<Piece("tooltip_end", <<"</ul></div></div>">>),
             Piece("close", <<"</span>">>)>>

\* str.replace(old, new) on the symbols of one string
RECURSIVE ReplaceSym(_, _, _)
ReplaceSym(s, old, new) ==
    IF s = <<>> THEN <<>>
    ELSE (IF s[1] = old THEN new ELSE <<s[1]>>) \o ReplaceSym(Tail(s), old, new)

\* lines 310-315: one summary per secondary
SecondaryInfo(secondaries) ==
    [i \in 1..Len(secondaries) |->
        <<source_labels[secondaries[i].source], ": ">>
            \o format_types(secondaries[i].types)]

\* lines 317-321: primary_html.replace('title="', f'title="{tooltip_extra}\\n').
\* No literal of create_entity_html holds the needle; a type label, written
\* as it is, may.
WithSecondaries(primary_html, secondaries) ==
    IF secondaries = <<>> THEN primary_html
    ELSE LET tooltip_extra ==
                 <<"\\nAlso annotated as:\\n">> \o Join(SecondaryInfo(secondaries), "\\n")
         IN  [i \in 1..Len(primary_html) |->
                 Piece(primary_html[i].kind,
                       ReplaceSym(primary_html[i].s, TitleAttr,
                                  <<TitleAttr>> \o tooltip_extra \o <<"\\n">>))]

\* line 303: max(group, key=lambda x: x.end - x.start), the first of the longest
Primary(group) ==
    LET longest(i) == \A j \in 1..Len(group) :
                          group[j].end - group[j].start <= group[i].end - group[i].start
    IN  group[Min({i \in 1..Len(group) : longest(i)})]

\* Secondaries told from the primary by their position alone.
SecondariesByPosition(group) ==
    SelectSeq(group, LAMBDA e : e.start # Primary(group).start
                                    \/ e.end # Primary(group).end)

\* line 304
Secondaries(group) == SelectSeq(group, LAMBDA e : e # Primary(group))

\* lines 297-323: the markup of one group
GroupHtml(group) ==
    IF Len(group) = 1 THEN create_entity_html(group[1])
    ELSE WithSecondaries(create_entity_html(Primary(group)), Secondaries(group))

Max(S) == CHOOSE x \in S : \A y \in S : y <= x

GapText(s) == Piece("gap", Escape(s))

\* An element of the list `result`: the escaped text before a group (group 0)
\* or the markup of the group-th group.
Element(g, pieces) == [group |-> g, pieces |-> pieces]

\* lines 287-325: the groups from the i-th on, last_pos being where the
\* previous one ended
RECURSIVE MarkupFrom(_, _, _, _)
MarkupFrom(passage, groups, i, last_pos) ==
    IF i > Len(groups)
    THEN \* lines 328-329
         IF last_pos < Len(passage)
         THEN <<Element(0, <<GapText(Slice(passage, last_pos, Len(passage)))>>)>>
         ELSE <<>>
    ELSE LET group == groups[i]
             group_start == Min({group[k].start : k \in 1..Len(group)})
             group_end == Max({group[k].end : k \in 1..Len(group)})
         IN  (IF group_start > last_pos
              THEN <<Element(0, <<GapText(Slice(passage, last_pos, group_start))>>)>>
              ELSE <<>>)
             \o <<Element(i, GroupHtml(group))>>
             \o MarkupFrom(passage, groups, i + 1, group_end)

\* lines 276-331: the list `result` that line 331 joins
markup_text(passage, entities) ==
    IF entities = <<>> THEN <<Element(0, <<GapText(passage)>>)>>
    ELSE MarkupFrom(passage, resolve_overlaps(entities), 1, 0)

\* --------------------------------------------------- compare_annotations
\* The type labels of the modelled records, in the order in which Python
\* compares strings (by code point).
TypeOrder == <<"<", "E21 Person", "E53 Place", "X0 Other", TitleAttr>>

TypeNames == {TypeOrder[i] : i \in 1..Len(TypeOrder)}

TypeRank(t) == CHOOSE i \in 1..Len(TypeOrder) : TypeOrder[i] = t

InsertType(sorted, t) ==
    LET n == Cardinality({i \in 1..Len(sorted) : TypeRank(sorted[i]) <= TypeRank(t)})
    IN  SubSeq(sorted, 1, n) \o <<t>> \o SubSeq(sorted, n + 1, Len(sorted))

TypesAsGiven(types) == types

\* lines 339-340: tuple(sorted(e.types))
RECURSIVE SortedTypes(_)
SortedTypes(types) ==
    IF types = <<>> THEN <<>>
    ELSE InsertType(SortedTypes(SubSeq(types, 1, Len(types) - 1)), types[Len(types)])

\* lines 339-340: {(e.start, e.end, tuple(sorted(e.types))) for e in ...}
SpanSet(entities) ==
    {<<entities[i].start, entities[i].end, SortedTypes(entities[i].types)>> :
        i \in 1..Len(entities)}

\* lines 349-350: {(e.start, e.end) for e in ...}
PositionSet(entities) ==
    {<<entities[i].start, entities[i].end>> : i \in 1..Len(entities)}

PartialAll(gt_positions, model_positions, exact) ==
    Cardinality(gt_positions \cap model_positions)

\* lines 352-355
PartialMatches(gt_positions, model_positions, exact) ==
    LET overlapping_positions == gt_positions \cap model_positions
        exact_match_positions == {<<x[1], x[2]>> : x \in exact}
    IN  Cardinality(overlapping_positions \ exact_match_positions)

\* ComparisonResult (lines 33-42)
NoComparison ==
    [exact_matches |-> 0, partial_matches |-> 0, type_mismatches |-> 0,
     ground_truth_only |-> 0, model_only |-> 0, total_ground_truth |-> 0,
     total_model |-> 0]

\* lines 333-357
compare_annotations(ground_truth, model_entities) ==
    LET gt_spans == SpanSet(ground_truth)
        model_spans == SpanSet(model_entities)
    IN  [exact_matches |-> Cardinality(gt_spans \cap model_spans),
         partial_matches |->
             PartialMatches(PositionSet(ground_truth), PositionSet(model_entities),
                            gt_spans \cap model_spans),
         type_mismatches |-> 0,
         ground_truth_only |-> Cardinality(gt_spans \ model_spans),
         model_only |-> Cardinality(model_spans \ gt_spans),
         total_ground_truth |-> Cardinality(gt_spans),
         total_model |-> Cardinality(model_spans)]

\* ----------------------------------------------------- generate_html_report
\* A JSON value of a types list that is not a string.
NotAStr == "<int 7>"

\* A fragment that the loop adds to html_content: the document head (lines
\* 362-842), the section of a passage (lines 864-882 and 929-931), an inline
\* error (lines 942 and 944) or the summary (lines 950-1008).
Fragment(k, n, body) == [kind |-> k, n |-> n, body |-> body]

\* A line of the input file.
Line(k, it) == [kind |-> k, item |-> it]

NoItem == Item(<<>>, <<>>, <<>>, <<>>)

\* The records of the modelled files: a passage in which the span text "a"
\* occurs twice, annotated or not by each source; a types list may hold a
\* value that is not a string, on a span text that occurs or on one that
\* does not.
ReportItems ==
    {Item(<<"a", "a">>, gt, mi, gp) :
        gt \in {<<>>, <<Label(<<"a">>, <<"E21 Person">>)>>},
        mi \in {<<Label(<<"a">>, <<"E21 Person">>)>>,
                <<Label(<<"a">>, <<"E53 Place">>)>>,
                <<Label(<<"a">>, <<NotAStr>>)>>, <<Label(<<"<">>, <<NotAStr>>)>>},
        gp \in {<<>>, <<Label(<<"a">>, <<"E21 Person">>)>>}}

\* The lines: blank, not JSON, JSON that is no object, an object without
\* 'text', a record.
ReportLines ==
    {Line("blank", NoItem), Line("invalid", NoItem), Line("scalar", NoItem),
     Line("no_text", NoItem)}
        \cup {Line("record", it) : it \in ReportItems}

\* lines 258 and 202: str.join raises TypeError on a type that is no string,
\* which every entity of a rendered source meets, as the primary or the
\* single span of its group (line 258) or as a secondary (line 202).
JoinRaises(entities) ==
    \E i \in 1..Len(entities) :
        \E t \in 1..Len(entities[i].types) : entities[i].types[t] = NotAStr

\* What raises in lines 858-886 for a line that json.loads accepted, and the
\* message of the exception; <<>> when nothing raises.
ProcessingError(line) ==
    CASE line.kind = "scalar" -> <<"'", "int", "'", " object is not subscriptable">>
      [] line.kind = "no_text" -> <<"'", "text", "'">>
      [] line.kind = "record" /\ JoinRaises(extract_entities(line.item)) ->
             <<"sequence item 0: expected str instance, int found">>
      [] OTHER -> <<>>

\* lines 864-882 and 929-931: the section of a passage
Section(n, it) ==
    LET all == extract_entities(it)
    IN  Fragment("section", n,
                 [i \in 1..3 |->
                     [entities |-> Len(OfSource(all, Sources[i])),
                      markup |-> markup_text(it.text, OfSource(all, Sources[i]))]])

ErrorFragment(what, line_num, message) ==
    Fragment("error", line_num, <<"<p style=\"color: red;\">", what, ToString(line_num), ": ">>
                                    \o message \o <<"</p>\n">>)

SectionThenError(html, text_no, line_num, line) ==
    Append(Append(html, Fragment("section", text_no, <<>>)),
           ErrorFragment("Error processing line ", line_num, ProcessingError(line)))

\* lines 943-944: the section is one expression (lines 864-882), so a line
\* whose processing raises has added nothing when the handler runs
OnProcessingError(html, text_no, line_num, line) ==
    Append(html, ErrorFragment("Error processing line ", line_num, ProcessingError(line)))

\* The running record overwritten by the record's result.
AccumulateLast(total, c) == c

\* The running record with ground_truth_only left out of the loop.
AccumulateButTruthOnly(total, c) ==
    [exact_matches |-> total.exact_matches + c.exact_matches,
     partial_matches |-> total.partial_matches + c.partial_matches,
     type_mismatches |-> total.type_mismatches,
     ground_truth_only |-> total.ground_truth_only,
     model_only |-> total.model_only + c.model_only,
     total_ground_truth |-> total.total_ground_truth + c.total_ground_truth,
     total_model |-> total.total_model + c.total_model]

\* lines 934-939
Accumulate(total, c) ==
    [exact_matches |-> total.exact_matches + c.exact_matches,
     partial_matches |-> total.partial_matches + c.partial_matches,
     type_mismatches |-> total.type_mismatches,
     ground_truth_only |-> total.ground_truth_only + c.ground_truth_only,
     model_only |-> total.model_only + c.model_only,
     total_ground_truth |-> total.total_ground_truth + c.total_ground_truth,
     total_model |-> total.total_model + c.total_model]

\* The format spec .2% of lines 977-988 applied to num / den: the value in
\* hundredths of a percent, rounded to the nearest, a tie to the even one
\* (no tie arises for den < 32).
Percent(num, den) ==
    LET q == (10000 * num) \div den
        r == (10000 * num) % den
    IN  IF 2 * r < den THEN q
        ELSE IF 2 * r > den THEN q + 1
        ELSE IF q % 2 = 0 THEN q ELSE q + 1

\* The share of the exact matches in the ground truth, shown as precision.
PrecisionOfTruth(total) ==
    Percent(total.exact_matches, Max({total.total_ground_truth, 1}))

\* lines 977-978
Precision(total) == Percent(total.exact_matches, Max({total.total_model, 1}))

\* lines 982-983
Recall(total) == Percent(total.exact_matches, Max({total.total_ground_truth, 1}))

\* lines 987-988: 2pr / max(p + r, 0.001) with p = e/m and r = e/g, which is
\* 2e / (m + g) when p + r >= 0.001 and 2000 e^2 / (m g) otherwise
F1Score(total) ==
    LET e == total.exact_matches
        m == Max({total.total_model, 1})
        g == Max({total.total_ground_truth, 1})
    IN  IF e > 0 /\ 1000 * e * (m + g) >= m * g
        THEN Percent(2 * e, m + g)
        ELSE Percent(2000 * e * e, m * g)

\* lines 947-990: the summary of the two models (1 mistral, 2 gpt4)
Summary(totals) ==
    [m \in 1..2 |->
        [total_model |-> totals[m].total_model,
         total_ground_truth |-> totals[1].total_ground_truth,
         exact_matches |-> totals[m].exact_matches,
         precision |-> Precision(totals[m]),
         recall |-> Recall(totals[m]),
         f1 |-> F1Score(totals[m])]]

\* The variables of the other machines while one machine runs.
RecIdle ==
    /\ item = NoItem
    /\ all_entities = <<>>
    /\ overlap_groups = <<>>
    /\ result = <<>>
    /\ comparison = <<>>
    /\ rpc = "idle"

RenderIdle ==
    /\ entity = EntitySpan(0, 0, <<>>, <<>>, "ground_truth", 0)
    /\ entity_html = <<>>
    /\ epc = "idle"

ReportIdle ==
    /\ lines = <<>>
    /\ html_content = <<>>
    /\ total_comparisons = <<>>
    /\ text_count = 0
    /\ mpc = "idle"

FindIdle ==
    /\ text = <<>>
    /\ span_text = <<>>
    /\ start = 0
    /\ occurrences = <<>>
    /\ fpc = "idle"

\* The loop itself, one iteration per step.
FindInit ==
    /\ text \in Strings(MaxTextLen)
    /\ span_text \in Strings(MaxSpanLen)
    /\ start = 0
    /\ occurrences = <<>>
    /\ fpc = "loop"
    /\ RecIdle
    /\ RenderIdle
    /\ ReportIdle

FindMatch ==
    /\ fpc = "loop"
    /\ PyFind(text, span_text, start) # -1
    /\ LET pos == PyFind(text, span_text, start)
       IN  /\ occurrences' = Append(occurrences, <<pos, pos + Len(span_text)>>)
           /\ start' = NextStart(pos, span_text)
    /\ UNCHANGED <<text, span_text, fpc, recVars, renderVars, reportVars>>

FindBreak ==
    /\ fpc = "loop"
    /\ PyFind(text, span_text, start) = -1
    /\ fpc' = "done"
    /\ UNCHANGED <<text, span_text, start, occurrences, recVars, renderVars, reportVars>>

FindNext == FindMatch \/ FindBreak

SpecFind == FindInit /\ [][FindNext]_vars

\* The loop of lines 75-80 is the only thing that runs: while it has a next
\* iteration, it takes it.
SpecFindFair == SpecFind /\ WF_vars(FindNext)

\* ------------------------------------------------- one record, step by step
\* Records with ground-truth annotations of one type: every passage and
\* every span text within the bounds.
PlainItems ==
    {Item(t, ls, <<>>, <<>>) :
        t \in RecordStrings(MaxTextLen),
        ls \in SeqsUpTo({Label(sp, <<"E21 Person">>) : sp \in RecordStrings(MaxSpanLen)},
                        MaxLabels)}

\* Records over a one-letter passage whose annotations vary in their types:
\* a known type, labels that hold markup, two types.
TypedItems ==
    {Item(t, ls, <<>>, <<>>) :
        t \in [1..MaxTextLen -> {"a"}],
        ls \in SeqsUpTo({Label(sp, ty) :
                            sp \in UNION {[1..k -> {"a"}] : k \in 1..MaxSpanLen},
                            ty \in {<<"E53 Place">>, <<TitleAttr>>, <<"<", "E21 Person">>}},
                        MaxLabels)}

\* Records over a one-letter passage that the ground truth and the two
\* models annotate, each with its own list of span texts that repeat and
\* overlap.
SourceItems ==
    LET ls == SeqsUpTo({Label(sp, <<"E21 Person">>) : sp \in {<<"a">>, <<"a", "a">>}},
                       MaxLabels)
    IN  {Item(t, gt, mi, gp) :
            t \in [1..MaxTextLen -> {"a"}], gt \in ls, mi \in ls, gp \in ls}

Items == PlainItems \cup TypedItems \cup SourceItems

\* Records over one passage whose ground-truth and model annotations vary in
\* their spans (two that overlap in part) and in their types.
CompareText == <<"a", "<", "a">>

CompareLabels ==
    {Label(sp, ty) :
        sp \in {<<"a", "<">>, <<"<", "a">>},
        ty \in {<<"E21 Person">>, <<"E21 Person", "E53 Place">>,
                <<"E53 Place", "E21 Person">>}}

CompareItems ==
    {Item(CompareText, gt, mi, <<>>) :
        gt \in SeqsUpTo(CompareLabels, MaxLabels),
        mi \in SeqsUpTo(CompareLabels, MaxLabels)}

RecStart ==
    /\ all_entities = <<>>
    /\ overlap_groups = <<>>
    /\ result = <<>>
    /\ comparison = <<>>
    /\ rpc = "loaded"
    /\ FindIdle
    /\ RenderIdle
    /\ ReportIdle

RecInit == item \in Items /\ RecStart

CompareInit == item \in CompareItems /\ RecStart

\* line 858
Extract ==
    /\ rpc = "loaded"
    /\ all_entities' = extract_entities(item)
    /\ rpc' = "extracted"
    /\ UNCHANGED <<item, overlap_groups, result, comparison, findVars, renderVars, reportVars>>

\* lines 859-882: the three renderings of the passage, each with the groups
\* that markup_text made of the source's entities (line 282)
Markup ==
    /\ rpc = "extracted"
    /\ overlap_groups' =
           [i \in 1..3 |-> resolve_overlaps(OfSource(all_entities, Sources[i]))]
    /\ result' =
           [i \in 1..3 |-> markup_text(item.text, OfSource(all_entities, Sources[i]))]
    /\ rpc' = "marked"
    /\ UNCHANGED <<item, all_entities, comparison, findVars, renderVars, reportVars>>

\* lines 885-886: mistral_comparison and gpt4_comparison
Compare ==
    /\ rpc = "marked"
    /\ comparison' =
           [i \in 1..2 |-> compare_annotations(OfSource(all_entities, Sources[1]),
                                               OfSource(all_entities, Sources[i + 1]))]
    /\ rpc' = "compared"
    /\ UNCHANGED <<item, all_entities, overlap_groups, result, findVars, renderVars, reportVars>>

RecNext == Extract \/ Markup \/ Compare

SpecRecord == RecInit /\ [][RecNext]_vars

SpecCompare == CompareInit /\ [][RecNext]_vars

\* --------------------------------------------- one call of create_entity_html
\* An entity of every type list within the bound, first or repeated.
RenderInit ==
    /\ entity \in {EntitySpan(0, Len(t), t, ty, src, occ) :
                      t \in RecordStrings(1) \ {<<>>},
                      ty \in SeqsUpTo(TypeNames, MaxTypes),
                      src \in {"ground_truth", "mistral", "gpt4"},
                      occ \in 1..2}
    /\ entity_html = <<>>
    /\ epc = "call"
    /\ FindIdle
    /\ RecIdle
    /\ ReportIdle

Render ==
    /\ epc = "call"
    /\ entity_html' = create_entity_html(entity)
    /\ epc' = "rendered"
    /\ UNCHANGED <<entity, findVars, recVars, reportVars>>

RenderNext == Render

SpecRender == RenderInit /\ [][RenderNext]_vars

\* ------------------------------------------------------- the report loop
\* lines 845-848: the state before the first line
ReportInit ==
    /\ lines = <<>>
    /\ html_content = <<Fragment("head", 0, <<>>)>>
    /\ total_comparisons = <<NoComparison, NoComparison>>
    /\ text_count = 0
    /\ mpc = "reading"
    /\ FindIdle
    /\ RecIdle
    /\ RenderIdle

\* lines 850-851: a blank line
SkipBlank ==
    /\ mpc = "reading"
    /\ Len(lines) < MaxLines
    /\ lines' = Append(lines, Line("blank", NoItem))
    /\ UNCHANGED <<html_content, total_comparisons, text_count, mpc>>
    /\ UNCHANGED <<findVars, recVars, renderVars>>

\* lines 854 and 941-942: json.loads raises
ParseError ==
    /\ mpc = "reading"
    /\ Len(lines) < MaxLines
    /\ lines' = Append(lines, Line("invalid", NoItem))
    /\ html_content' =
           Append(html_content,
                  ErrorFragment("Error parsing line ", Len(lines) + 1,
                                <<"Expecting value: line 1 column 1 (char 0)">>))
    /\ UNCHANGED <<total_comparisons, text_count, mpc>>
    /\ UNCHANGED <<findVars, recVars, renderVars>>

\* lines 854-882 and 943-944: the line is JSON and its processing raises
ProcessError ==
    /\ mpc = "reading"
    /\ Len(lines) < MaxLines
    /\ \E line \in ReportLines :
          /\ line.kind \in {"scalar", "no_text", "record"}
          /\ ProcessingError(line) # <<>>
          /\ lines' = Append(lines, line)
          /\ text_count' = text_count + 1
          /\ html_content' =
                 OnProcessingError(html_content, text_count + 1, Len(lines) + 1, line)
    /\ UNCHANGED <<total_comparisons, mpc>>
    /\ UNCHANGED <<findVars, recVars, renderVars>>

\* lines 854-939: the line is a record and nothing raises
ProcessRecord ==
    /\ mpc = "reading"
    /\ Len(lines) < MaxLines
    /\ \E line \in ReportLines :
          /\ line.kind = "record"
          /\ ProcessingError(line) = <<>>
          /\ lines' = Append(lines, line)
          /\ text_count' = text_count + 1
          /\ html_content' = Append(html_content, Section(text_count + 1, line.item))
          /\ LET all == extract_entities(line.item)
             IN  total_comparisons' =
                     [i \in 1..2 |->
                         Accumulate(total_comparisons[i],
                                    compare_annotations(OfSource(all, Sources[1]),
                                                        OfSource(all, Sources[i + 1])))]
    /\ UNCHANGED mpc
    /\ UNCHANGED <<findVars, recVars, renderVars>>

\* lines 946-1010: the end of the file
Finish ==
    /\ mpc = "reading"
    /\ html_content' = Append(html_content, Fragment("summary", text_count, Summary(total_comparisons)))
    /\ mpc' = "done"
    /\ UNCHANGED <<lines, total_comparisons, text_count>>
    /\ UNCHANGED <<findVars, recVars, renderVars>>

Next == SkipBlank \/ ParseError \/ ProcessError \/ ProcessRecord \/ Finish

Spec == ReportInit /\ [][Next]_vars

\* ---------------------------------------------------------------- claims
\* The start indices at which sub occurs in s.
MatchStarts(s, sub) ==
    {i \in 0..Len(s) : i + Len(sub) <= Len(s) /\ Slice(s, i, i + Len(sub)) = sub}

\* C1: when the search loop has ended, the list it built holds exactly the
\* pairs (i, i + len(S)) of the start indices i at which S occurs in T,
\* overlapping occurrences included, each once and in ascending order of i.
C1_AllOccurrences ==
    fpc = "done" =>
        /\ Len(occurrences) = Cardinality(MatchStarts(text, span_text))
        /\ \A k \in 1..Len(occurrences) :
              /\ occurrences[k][1] \in MatchStarts(text, span_text)
              /\ occurrences[k][2] = occurrences[k][1] + Len(span_text)
        /\ \A k \in 1..(Len(occurrences) - 1) :
              occurrences[k][1] < occurrences[k + 1][1]
        /\ find_all_occurrences(text, span_text) = occurrences

\* Two occurrences that overlap each other were both found.
C1_Witness ==
    /\ fpc = "done"
    /\ \E k \in 1..(Len(occurrences) - 1) :
          occurrences[k + 1][1] < occurrences[k][2]

\* The spans of a group that a chain of pairwise overlaps links to those of S.
RECURSIVE Linked(_, _)
Linked(group, S) ==
    LET more == {j \in 1..Len(group) : \E i \in S : Overlaps(group[i], group[j])}
    IN  IF more \subseteq S THEN S ELSE Linked(group, S \cup more)

\* C2: the groups of every source are the connected components of the
\* pairwise-overlap relation: the spans of a group are linked by chains of
\* overlapping spans of the group, and no span of one group overlaps a span
\* of another group.
C2_GroupsAreComponents ==
    rpc = "marked" =>
        \A i \in 1..3 :
            LET groups == overlap_groups[i]
            IN  /\ \A g \in 1..Len(groups) :
                      Linked(groups[g], {1}) = 1..Len(groups[g])
                /\ \A g, h \in 1..Len(groups) :
                      g # h =>
                          \A a \in 1..Len(groups[g]), b \in 1..Len(groups[h]) :
                              ~Overlaps(groups[g][a], groups[h][b])

\* The pieces of the markup of one source.
RECURSIVE PiecesOf(_)
PiecesOf(elements) ==
    IF elements = <<>> THEN <<>> ELSE elements[1].pieces \o PiecesOf(Tail(elements))

\* The characters that html.escape rewrites, and the needle of line 320.
RawSymbols == {"<", ">", "&", "\"", "'", TitleAttr}

HasRaw(s) == \E k \in 1..Len(s) : s[k] \in RawSymbols

\* C6: no piece of markup that carries passage text, the text between the
\* groups or the text of a rendered entity, holds an unescaped '<', '>' or '&'.
C6_PassageEscaped ==
    rpc = "marked" =>
        \A i \in 1..3 :
            \A k \in 1..Len(PiecesOf(result[i])) :
                PiecesOf(result[i])[k].kind \in {"gap", "text"} =>
                    ~HasRaw(PiecesOf(result[i])[k].s)

\* A passage with '<' both between the groups and inside a rendered entity.
C6_Witness ==
    /\ rpc = "marked"
    /\ \E k \in 1..Len(PiecesOf(result[1])) :
          /\ PiecesOf(result[1])[k].kind = "gap"
          /\ \E n \in 1..Len(PiecesOf(result[1])[k].s) :
                PiecesOf(result[1])[k].s[n] = "&lt;"
    /\ \E k \in 1..Len(PiecesOf(result[1])) :
          /\ PiecesOf(result[1])[k].kind = "text"
          /\ \E n \in 1..Len(PiecesOf(result[1])[k].s) :
                PiecesOf(result[1])[k].s[n] = "&lt;"

\* C7: no piece of the markup of a record, the type labels in the tooltip
\* and in the data-types attribute included, holds an unescaped character
\* of the input.
C7_AllTextEscaped ==
    rpc = "marked" =>
        \A i \in 1..3 :
            \A k \in 1..Len(PiecesOf(result[i])) : ~HasRaw(PiecesOf(result[i])[k].s)

\* The piece of a kind in the markup of one group.
PieceOfKind(el, kind) ==
    el.pieces[CHOOSE k \in 1..Len(el.pieces) : el.pieces[k].kind = kind]

\* What the rendering shows for the k-th of the occurrences of a span text.
Superscript(k) == IF k = 1 THEN <<>> ELSE <<"<sup>", ToString(k), "</sup>">>

\* The rendered entities of the ground truth with the span text sp, in order.
Shown(sp) ==
    SelectSeq(result[1],
              LAMBDA el : el.group > 0 /\ PieceOfKind(el, "text").s = Escape(sp))

NumberedInOrder(sp) ==
    /\ Len(Shown(sp)) = Cardinality(MatchStarts(item.text, sp))
    /\ \A k \in 1..Len(Shown(sp)) : PieceOfKind(Shown(sp)[k], "sup").s = Superscript(k)

AnnotatedOnce(sp) ==
    Cardinality({l \in 1..Len(item.labels) : item.labels[l].span = sp}) = 1

\* C8 as claimed, in its plainest case, a span text that is not empty and
\* that one annotation carries: a ground-truth span text that occurs n times
\* in the passage is shown n times, the k-th with superscript k and the
\* first with none.
C8_EveryOccurrenceNumbered ==
    rpc = "marked" =>
        \A l \in 1..Len(item.labels) :
            (item.labels[l].span # <<>> /\ AnnotatedOnce(item.labels[l].span))
                => NumberedInOrder(item.labels[l].span)

\* Every occurrence of sp is alone in its overlap group.
AllAlone(sp) ==
    \A g \in 1..Len(overlap_groups[1]) :
        (\E a \in 1..Len(overlap_groups[1][g]) : overlap_groups[1][g][a].text = sp)
            => Len(overlap_groups[1][g]) = 1

\* The occurrence index of a span: its place among the occurrences of its text.
PlaceInText(e) == Cardinality({i \in MatchStarts(item.text, e.text) : i <= e.start})

\* C8 as amended: a ground-truth span text that one annotation carries and
\* whose occurrences are each alone in their overlap group is shown once per
\* occurrence, in text order, the first without superscript and the k-th
\* with superscript k; and every entity that is rendered, alone or as the
\* primary of its group, whose text one annotation carries shows the
\* superscript of its place among the occurrences of its text (none for the
\* first).  The secondaries of a group are not rendered.
C8_RenderedOccurrencesNumbered ==
    rpc = "marked" =>
        /\ \A l \in 1..Len(item.labels) :
              (AnnotatedOnce(item.labels[l].span) /\ AllAlone(item.labels[l].span))
                  => NumberedInOrder(item.labels[l].span)
        /\ Cardinality({k \in 1..Len(result[1]) : result[1][k].group > 0})
              = Len(overlap_groups[1])
        /\ \A k \in 1..Len(result[1]) :
              result[1][k].group > 0 =>
                  \E a \in 1..Len(overlap_groups[1][result[1][k].group]) :
                      LET e == overlap_groups[1][result[1][k].group][a]
                      IN  /\ PieceOfKind(result[1][k], "text").s = Escape(e.text)
                          /\ PieceOfKind(result[1][k], "tooltip").s[4] = ToString(e.start)
                          /\ AnnotatedOnce(e.text) =>
                                 PieceOfKind(result[1][k], "sup").s
                                     = Superscript(PlaceInText(e))

\* A span text that occurs three times, shown unnumbered, 2 and 3.
C8_Witness ==
    /\ rpc = "marked"
    /\ \E l \in 1..Len(item.labels) :
          /\ AnnotatedOnce(item.labels[l].span)
          /\ AllAlone(item.labels[l].span)
          /\ Len(Shown(item.labels[l].span)) = 3
          /\ PieceOfKind(Shown(item.labels[l].span)[1], "sup").s = <<>>
          /\ PieceOfKind(Shown(item.labels[l].span)[2], "sup").s = <<"<sup>", "2", "</sup>">>
          /\ PieceOfKind(Shown(item.labels[l].span)[3], "sup").s = <<"<sup>", "3", "</sup>">>

\* s holds sub as a run of consecutive symbols.
Holds(s, sub) ==
    \E i \in 0..(Len(s) - Len(sub)) : Slice(s, i, i + Len(sub)) = sub

\* The colour a type is mapped to, the neutral one for a type not in the table.
ColourOf(t) ==
    IF t \in DOMAIN entity_colors THEN entity_colors[t] ELSE entity_colors["default"]

Split(c1, c2) ==
    <<"background: ", "linear-gradient(45deg, ", c1, " 50%, ", c2, " 50%)", ";">>

Solid(c) == <<"background: ", c, ";">>

StyleOf(html) == html[CHOOSE k \in 1..Len(html) : html[k].kind = "open"].s

\* C9 as claimed: an entity of two types is rendered with the 50/50 split of
\* the colours of its two types in their order, the neutral colour standing
\* for a type the table does not know.
C9_TwoTypesSplit ==
    (epc = "rendered" /\ Len(entity.types) = 2) =>
        Holds(StyleOf(entity_html),
              Split(ColourOf(entity.types[1]), ColourOf(entity.types[2])))

\* C9 as amended: an entity of two types both of which the table knows is
\* rendered with the 50/50 split of their two colours in their order; with
\* one known type its background is that type's colour alone, and with none
\* the neutral colour alone.
C9_TwoKnownTypesSplit ==
    (epc = "rendered" /\ Len(entity.types) = 2) =>
        LET t1 == entity.types[1]
            t2 == entity.types[2]
            style == StyleOf(entity_html)
        IN  /\ (t1 \in DOMAIN entity_colors /\ t2 \in DOMAIN entity_colors)
                  => Holds(style, Split(entity_colors[t1], entity_colors[t2]))
            /\ (t1 \in DOMAIN entity_colors /\ t2 \notin DOMAIN entity_colors)
                  => Holds(style, Solid(entity_colors[t1]))
            /\ (t1 \notin DOMAIN entity_colors /\ t2 \in DOMAIN entity_colors)
                  => Holds(style, Solid(entity_colors[t2]))
            /\ (t1 \notin DOMAIN entity_colors /\ t2 \notin DOMAIN entity_colors)
                  => Holds(style, Solid(entity_colors["default"]))

\* The entity of types E21 Person and E53 Place, rendered with their split.
C9_Witness ==
    /\ epc = "rendered"
    /\ entity.types = <<"E21 Person", "E53 Place">>
    /\ Holds(StyleOf(entity_html), Split("#FF6B6B", "#4ECDC4"))

\* C10: the markup of every group of two or more spans holds, in a piece of
\* the primary's tooltip, the summary (source label and comma-joined types)
\* of every other span of the group.
C10_SecondariesInTooltip ==
    rpc = "marked" =>
        \A i \in 1..3 :
            \A k \in 1..Len(result[i]) :
                (result[i][k].group > 0
                 /\ Len(overlap_groups[i][result[i][k].group]) >= 2) =>
                    \A a \in 1..Len(Secondaries(overlap_groups[i][result[i][k].group])) :
                        \E p \in 1..Len(result[i][k].pieces) :
                            /\ result[i][k].pieces[p].kind
                                   \in {"tooltip", "type_item", "tooltip_end"}
                            /\ Holds(result[i][k].pieces[p].s,
                                     SecondaryInfo(Secondaries(
                                         overlap_groups[i][result[i][k].group]))[a])

\* The triple of a span with its types as a bag: two type lists have the
\* same sorted tuple exactly when they hold the same labels as often.
TypeBag(types) ==
    [t \in TypeNames |-> Cardinality({i \in 1..Len(types) : types[i] = t})]

Triples(entities) ==
    {<<entities[i].start, entities[i].end, TypeBag(entities[i].types)>> :
        i \in 1..Len(entities)}

GroundTruth == OfSource(all_entities, "ground_truth")

Mistral == OfSource(all_entities, "mistral")

\* C3: the comparison of a model with the ground truth counts the triples
\* (start, end, sorted types) of both as exact matches, those of the ground
\* truth alone, those of the model alone, and all of each.
C3_SetComparison ==
    rpc = "compared" =>
        LET G == Triples(GroundTruth)
            M == Triples(Mistral)
        IN  /\ comparison[1].exact_matches = Cardinality(G \cap M)
            /\ comparison[1].ground_truth_only = Cardinality(G \ M)
            /\ comparison[1].model_only = Cardinality(M \ G)
            /\ comparison[1].total_ground_truth = Cardinality(G)
            /\ comparison[1].total_model = Cardinality(M)

\* One ground-truth triple that the model has too, in another order of its
\* types, and one more triple of the model alone.
C3_Witness ==
    /\ rpc = "compared"
    /\ Cardinality(Triples(GroundTruth)) = 1
    /\ Cardinality(Triples(Mistral)) = 2
    /\ \E i \in 1..Len(GroundTruth), j \in 1..Len(Mistral) :
          /\ GroundTruth[i].start = Mistral[j].start
          /\ GroundTruth[i].types # Mistral[j].types
    /\ comparison[1].exact_matches = 1
    /\ comparison[1].model_only = 1
    /\ comparison[1].ground_truth_only = 0

Positions(entities) ==
    {<<entities[i].start, entities[i].end>> : i \in 1..Len(entities)}

\* The positions at which both sources have a span of the same types.
ExactPositions ==
    {p \in Positions(GroundTruth) \cap Positions(Mistral) :
        \E i \in 1..Len(GroundTruth), j \in 1..Len(Mistral) :
            /\ <<GroundTruth[i].start, GroundTruth[i].end>> = p
            /\ <<Mistral[j].start, Mistral[j].end>> = p
            /\ TypeBag(GroundTruth[i].types) = TypeBag(Mistral[j].types)}

\* C4: partial_matches counts the positions that both sources have and at
\* which they share no triple, which is the number of common positions less
\* the number of positions of the exact matches; positions that only
\* overlap in part count nothing.
C4_PartialMatches ==
    rpc = "compared" =>
        LET common == Positions(GroundTruth) \cap Positions(Mistral)
        IN  /\ comparison[1].partial_matches = Cardinality(common \ ExactPositions)
            /\ comparison[1].partial_matches
                   = Cardinality(common) - Cardinality(ExactPositions)
            /\ common = {} => comparison[1].partial_matches = 0

\* A position with different types in the two sources, counted, beside spans
\* of the two sources that overlap in part, not counted.
C4_Witness ==
    /\ rpc = "compared"
    /\ comparison[1].partial_matches = 1
    /\ Cardinality(Positions(GroundTruth) \cap Positions(Mistral)) = 1
    /\ \E i \in 1..Len(GroundTruth), j \in 1..Len(Mistral) :
          /\ Overlaps(GroundTruth[i], Mistral[j])
          /\ GroundTruth[i].start # Mistral[j].start

\* A line that fails: it is not JSON, or its processing raises.
Fails(line) == line.kind = "invalid" \/ ProcessingError(line) # <<>>

\* What a line adds to the report: nothing, an error or a section.
RECURSIVE Expected(_, _)
Expected(ls, k) ==
    IF k > Len(ls) THEN <<>>
    ELSE (IF ls[k].kind = "blank" THEN <<>>
          ELSE IF Fails(ls[k]) THEN <<<<"error", k>>>>
          ELSE <<<<"section", k>>>>) \o Expected(ls, k + 1)

\* C5: the report holds, after its head and in the order of the file, one
\* inline error and no section for every line that fails and one section
\* for every other line that is not blank, whatever failed before it, the
\* errors with the numbers of their lines; the summary comes once, after
\* the last line.
C5_ErrorsInline ==
    LET exp == Expected(lines, 1)
        n == Len(exp)
    IN  /\ Len(html_content) = 1 + n + (IF mpc = "done" THEN 1 ELSE 0)
        /\ html_content[1].kind = "head"
        /\ \A k \in 1..n :
              /\ html_content[k + 1].kind = exp[k][1]
              /\ exp[k][1] = "error" => html_content[k + 1].n = exp[k][2]
        /\ mpc = "done" => html_content[Len(html_content)].kind = "summary"

\* A line that is not JSON and a line whose processing raises, followed by a
\* record that got its section, and the summary.
C5_Witness ==
    /\ mpc = "done"
    /\ Len(lines) = 3
    /\ lines[1].kind = "invalid"
    /\ lines[2].kind = "record"
    /\ ProcessingError(lines[2]) # <<>>
    /\ html_content[2].kind = "error"
    /\ html_content[3].kind = "error"
    /\ html_content[4].kind = "section"
    /\ html_content[5].kind = "summary"

\* ------------------------------------------------------------------ C11
\* The overlap groups, of two spans or more, that markup_text made for the
\* three sources of the record.
SharedGroups ==
    {g \in UNION {{overlap_groups[i][k] : k \in 1..Len(overlap_groups[i])} :
                     i \in DOMAIN overlap_groups} : Len(g) >= 2}

SpanLength(e) == e.end - e.start

\* C11: of every overlap group of two spans or more of one source,
\* markup_text takes one span of the group as the primary, no other span of
\* the group is longer than it, and every other span, all but one of the
\* group, is a secondary: the equality test of line 304 drops the primary
\* alone.
C11_OnePrimaryRestSecondary ==
    rpc \in {"marked", "compared"} =>
        \A g \in SharedGroups :
            /\ \E i \in 1..Len(g) : g[i] = Primary(g)
            /\ \A i \in 1..Len(g) : SpanLength(g[i]) <= SpanLength(Primary(g))
            /\ Len(Secondaries(g)) = Len(g) - 1
            /\ Cardinality({i \in 1..Len(g) : g[i] = Primary(g)}) = 1

\* A group of three spans or more that holds the span of the primary twice
\* (two annotations of one span text): the twin of the primary is a secondary.
C11_Witness ==
    /\ rpc = "marked"
    /\ \E g \in SharedGroups :
          /\ Len(g) >= 3
          /\ Len(Secondaries(g)) = Len(g) - 1
          /\ \E i \in 1..Len(g) :
                /\ g[i] # Primary(g)
                /\ g[i].start = Primary(g).start
                /\ g[i].end = Primary(g).end

\* ------------------------------------------------------------------ C12
\* The counters that line 934 accumulates.
CounterNames ==
    {"exact_matches", "partial_matches", "ground_truth_only", "model_only",
     "total_ground_truth", "total_model"}

\* A line that was processed without error: a record whose processing did
\* not raise.
Processed(line) == line.kind = "record" /\ ~Fails(line)

\* The comparisons of the ground truth of a record with its two models
\* (1 mistral, 2 gpt4).
RecordResults(it) ==
    LET all == extract_entities(it)
    IN  [m \in 1..2 |-> compare_annotations(OfSource(all, Sources[1]),
                                            OfSource(all, Sources[m + 1]))]

RecordResult(it, m) == RecordResults(it)[m]

\* The lines of the modelled files that are processed without error, and
\* the comparisons of every line, tabulated.
ProcessedLines == {line \in ReportLines : Processed(line)}

ResultsOfLine == [line \in ReportLines |-> RecordResults(line.item)]

\* The sums of the counters of each model over the processed lines among
\* ls[k..].
RECURSIVE SumOver(_, _)
SumOver(ls, k) ==
    IF k > Len(ls) THEN [m \in 1..2 |-> [name \in CounterNames |-> 0]]
    ELSE LET rest == SumOver(ls, k + 1)
             r == ResultsOfLine[ls[k]]
         IN  IF ls[k] \in ProcessedLines
             THEN [m \in 1..2 |-> [name \in CounterNames |-> r[m][name] + rest[m][name]]]
             ELSE rest

\* C12: after any sequence of lines, each counter of each model's running
\* aggregate is the sum of that counter over the comparison results of the
\* lines processed without error; a blank line, a line that is not JSON and
\* a line whose processing raises add nothing.
C12_TotalsAreSums ==
    mpc \in {"reading", "done"} =>
        LET sums == SumOver(lines, 1)
        IN  \A m \in 1..2 : \A name \in CounterNames :
                total_comparisons[m][name] = sums[m][name]

\* Two processed records with a line between them whose processing raised:
\* the aggregate of mistral holds the spans of both records.
C12_Witness ==
    /\ Len(lines) = 3
    /\ Processed(lines[1])
    /\ lines[2].kind = "record" /\ Fails(lines[2])
    /\ Processed(lines[3])
    /\ RecordResult(lines[1].item, 1).exact_matches = 2
    /\ RecordResult(lines[3].item, 1).model_only = 2
    /\ total_comparisons[1].total_model = 4
    /\ total_comparisons[1].exact_matches = 2
    /\ total_comparisons[1].model_only = 2

\* ------------------------------------------------------------------ C13
\* The summary that the finished report ends with.
FinalSummary == html_content[Len(html_content)].body

\* v, in hundredths of a percent, is the .2% rendering of num / den.
Renders(v, num, den) ==
    /\ v \in 0..10000
    /\ 2 * (v * den - 10000 * num) <= den
    /\ 2 * (10000 * num - v * den) <= den

\* C13: in the final summary the precision of each model is
\* exact_matches / total_model, and 0 when the model predicted nothing; its
\* recall is exact_matches / total_ground_truth, and 0 when there is no
\* ground truth; both lie between 0 and 1 (0% and 100%).
C13_PrecisionRecall ==
    mpc = "done" =>
        \A m \in 1..2 :
            LET t == total_comparisons[m]
                s == FinalSummary[m]
            IN  /\ t.total_model = 0 => s.precision = 0
                /\ t.total_model > 0 => Renders(s.precision, t.exact_matches, t.total_model)
                /\ t.total_ground_truth = 0 => s.recall = 0
                /\ t.total_ground_truth > 0 =>
                       Renders(s.recall, t.exact_matches, t.total_ground_truth)
                /\ s.precision \in 0..10000
                /\ s.recall \in 0..10000

\* Half of the spans of mistral are exact matches and every span of the
\* ground truth is matched: precision 50.00%, recall 100.00%; gpt4
\* predicted nothing: 0.00% and 0.00%.
C13_Witness ==
    /\ mpc = "done"
    /\ total_comparisons[1].exact_matches = 2
    /\ total_comparisons[1].total_model = 4
    /\ total_comparisons[1].total_ground_truth = 2
    /\ FinalSummary[1].precision = 5000
    /\ FinalSummary[1].recall = 10000
    /\ total_comparisons[2].total_model = 0
    /\ FinalSummary[2].precision = 0
    /\ FinalSummary[2].recall = 0

\* ------------------------------------------------------------------ C15
\* The annotations of a source in the record: 'labels', 'mistral_labels',
\* 'gpt4o_mini_labels'.
LabelsOf(it, i) == <<it.labels, it.mistral, it.gpt4>>[i]

\* The k-th start index, in text order, at which sub occurs in s.
KthStart(s, sub, k) ==
    CHOOSE i \in MatchStarts(s, sub) :
        Cardinality({j \in MatchStarts(s, sub) : j < i}) = k - 1

\* The spans that the annotations of the source before the j-th, with the
\* span text of the j-th, have made.
MadeBefore(s, ls, j) ==
    Cardinality({h \in 1..(j - 1) : ls[h].span = ls[j].span})
        * Cardinality(MatchStarts(s, ls[j].span))

\* C15: the occurrence index of a span is the number of spans with its span
\* text made so far for its source in the record, itself included: the k-th
\* occurrence of the j-th annotation of a source has the index k plus the
\* spans that earlier annotations of that source made of the same span
\* text; the count starts at 1 for each of the three sources, whatever the
\* other sources annotate, and the record has no other spans.
C15_OccurrencePerSource ==
    rpc \in {"extracted", "marked", "compared"} =>
        \A i \in 1..3 :
            LET ls == LabelsOf(item, i)
                mine == OfSource(all_entities, Sources[i])
            IN  /\ \A j \in 1..Len(ls) :
                       \A k \in 1..Cardinality(MatchStarts(item.text, ls[j].span)) :
                           \E a \in 1..Len(mine) :
                               /\ mine[a].start = KthStart(item.text, ls[j].span, k)
                               /\ mine[a].text = ls[j].span
                               /\ mine[a].types = ls[j].types
                               /\ mine[a].occurrence_id = MadeBefore(item.text, ls, j) + k
                /\ \A a, b \in 1..Len(mine) :
                       (a # b /\ mine[a].text = mine[b].text)
                           => mine[a].occurrence_id # mine[b].occurrence_id
                /\ \A a \in 1..Len(mine) :
                       mine[a].occurrence_id \in
                           1..Cardinality({b \in 1..Len(mine) : mine[b].text = mine[a].text})

\* The ground truth annotates the span text "a" twice and each model once:
\* its occurrences run to twice their number in the ground truth and from 1
\* to their number in each model.
C15_Witness ==
    /\ rpc = "extracted"
    /\ Len(item.text) = MaxTextLen
    /\ item.labels = <<Label(<<"a">>, <<"E21 Person">>), Label(<<"a">>, <<"E21 Person">>)>>
    /\ item.mistral = <<Label(<<"a">>, <<"E21 Person">>)>>
    /\ item.gpt4 = <<Label(<<"a">>, <<"E21 Person">>)>>
    /\ \E a \in 1..Len(all_entities) :
          /\ all_entities[a].source = "ground_truth"
          /\ all_entities[a].occurrence_id = 2 * MaxTextLen
    /\ \A src \in {"mistral", "gpt4"} :
          {OfSource(all_entities, src)[a].occurrence_id :
              a \in 1..Len(OfSource(all_entities, src))} = 1..MaxTextLen

\* ------------------------------------------------------------------ C16
\* C16: every span that extract_entities makes has start < end and its text
\* is the passage from start to end, whatever the span text of the
\* annotation, the empty one included.
C16_SpansWellFormed ==
    rpc \in {"extracted", "marked", "compared"} =>
        \A a \in 1..Len(all_entities) :
            /\ all_entities[a].start < all_entities[a].end
            /\ all_entities[a].text
                   = Slice(item.text, all_entities[a].start, all_entities[a].end)

\* ------------------------------------------------------------------ C17
\* The visible text of a markup: what its gaps and the texts of its
\* rendered entities show, in order.
RECURSIVE VisibleOf(_)
VisibleOf(pieces) ==
    IF pieces = <<>> THEN <<>>
    ELSE (IF pieces[1].kind \in {"gap", "text"} THEN pieces[1].s ELSE <<>>)
             \o VisibleOf(Tail(pieces))

\* C17: the visible text of the markup of each source is the passage, every
\* character once and in order, also when the primary of a group does not
\* span the extent of its group (checked for the records whose spans all
\* have start < end).
C17_VisibleTextIsPassage ==
    (/\ rpc = "marked"
     /\ \A a \in 1..Len(all_entities) : all_entities[a].start < all_entities[a].end)
        => \A i \in 1..3 : VisibleOf(PiecesOf(result[i])) = Escape(item.text)

\* ------------------------------------------------------------------ C18
\* The counters of a comparison add up.
AddsUp(c) ==
    /\ c.exact_matches + c.ground_truth_only = c.total_ground_truth
    /\ c.exact_matches + c.model_only = c.total_model
    /\ c.partial_matches <= Min({c.ground_truth_only, c.model_only})

\* C18: for the comparison of the record processed last with each model (so
\* of every record, each being the last of some run), and for the running
\* aggregate of each model after any sequence of lines,
\* exact_matches + ground_truth_only = total_ground_truth,
\* exact_matches + model_only = total_model and
\* partial_matches <= min(ground_truth_only, model_only).
C18_CountersAddUp ==
    mpc \in {"reading", "done"} =>
        /\ \A m \in 1..2 : AddsUp(total_comparisons[m])
        /\ (lines # <<>> /\ lines[Len(lines)] \in ProcessedLines) =>
               LET r == ResultsOfLine[lines[Len(lines)]]
               IN  \A m \in 1..2 : AddsUp(r[m])

\* A record whose spans mistral matches and a record whose spans it types
\* otherwise: the aggregate holds exact matches and as many partial matches
\* as spans of each side without a match.
C18_Witness ==
    /\ Len(lines) >= 2
    /\ Processed(lines[1])
    /\ Processed(lines[2])
    /\ RecordResult(lines[1].item, 1).exact_matches = 2
    /\ RecordResult(lines[2].item, 1).partial_matches = 2
    /\ total_comparisons[1].exact_matches = 2
    /\ total_comparisons[1].partial_matches = 2
    /\ total_comparisons[1].ground_truth_only = 2
    /\ total_comparisons[1].model_only = 2
    /\ total_comparisons[1].total_ground_truth = 4
    /\ total_comparisons[1].total_model = 4

\* ------------------------------------------------------------------ C19
\* The passage sections written to the report so far.
SectionsWritten == {k \in 1..Len(html_content) : html_content[k].kind = "section"}

\* C19: after any sequence of lines the passage counter, which numbers the
\* last 'Text Passage N' heading and is the N of 'Processed N text
\* passages', is the number of passage sections written to the report; a
\* line that is JSON and whose processing raises does not advance it.
C19_CounterIsSections ==
    mpc \in {"reading", "done"} =>
        /\ text_count = Cardinality(SectionsWritten)
        /\ \A k \in SectionsWritten :
               html_content[k].n = Cardinality({j \in SectionsWritten : j <= k})
        /\ mpc = "done" => html_content[Len(html_content)].n = Cardinality(SectionsWritten)

\* ------------------------------------------------------------------ C20
\* C20: find_all_occurrences terminates for every text and every span text,
\* the empty one and one longer than the text included: every iteration of
\* the loop that does not end it raises the search position, the position
\* never passes len(text) + 1, the list never holds more than len(text) + 1
\* matches, and the loop ends.
C20_SearchTerminates ==
    /\ [][fpc' = "loop" => start' > start]_vars
    /\ [](fpc \in {"loop", "done"} =>
              /\ start \in 0..(Len(text) + 1)
              /\ Len(occurrences) <= Len(text) + 1)
    /\ <>(fpc = "done")

\* The empty span text in a text of the greatest length: the loop ended
\* after len(text) + 1 matches.
C20_Witness ==
    /\ fpc = "done"
    /\ span_text = <<>>
    /\ Len(text) = MaxTextLen
    /\ Len(occurrences) = Len(text) + 1
    /\ start = Len(text) + 1
====
